---------------------------- MODULE Spec2Model ----------------------------
(***************************************************************************)
(* Model of the renderer package of g3nserverside:                         *)
(*   renderer/command.go  - commandLoop, the command dispatcher            *)
(*   renderer/message.go  - makeScreenShot, the capture / dedup / send     *)
(*                                                                         *)
(* Two activities share the application state: the command loop (a         *)
(* goroutine draining cCommands) and the render callback onRender, which   *)
(* calls makeScreenShot once per rendered frame.                           *)
(*                                                                         *)
(* Strings that the code parses (Command.Val) are sequences of one-letter  *)
(* strings, so that strings.Split, strconv.Atoi and strconv.ParseFloat are *)
(* computed character by character.  Command.Cmd is only compared, and is  *)
(* an ordinary string.                                                     *)
(***************************************************************************)
EXTENDS Integers, Sequences, FiniteSets, TLC

\* ------------------------------------------------------------------ bounds

\* cCommands holds at most this many undelivered messages.
MaxQueue == 1
\* The encoder's possible outputs are the frames 1..MaxFrame.
MaxFrame == 3
\* The digests the frames hash to are 1..NumDigests (0 is the zero array).
NumDigests == 2
\* The count of makeScreenShot calls in flight is followed up to this number.
MaxCaptures == 2

\* ----------------------------------------------------------- strconv, strings

Digits == {"0", "1", "2", "3", "4", "5", "6", "7", "8", "9"}

DigitVal(c) ==
    CASE c = "0" -> 0 [] c = "1" -> 1 [] c = "2" -> 2 [] c = "3" -> 3
      [] c = "4" -> 4 [] c = "5" -> 5 [] c = "6" -> 6 [] c = "7" -> 7
      [] c = "8" -> 8 [] c = "9" -> 9

\* unicode.ToLower on the letters the inputs use.
Lower(c) ==
    CASE c = "N" -> "n" [] c = "A" -> "a" [] c = "I" -> "i" [] c = "F" -> "f"
      [] OTHER -> c

LowerSeq(s) == [i \in 1..Len(s) |-> Lower(s[i])]

AllDigits(s) == \A i \in 1..Len(s) : s[i] \in Digits

RECURSIVE DecVal(_)
\* The value of a sequence of decimal digits (n = n*10 + digit, left to right).
DecVal(s) ==
    IF s = <<>> THEN 0
    ELSE DecVal(SubSeq(s, 1, Len(s) - 1)) * 10 + DigitVal(s[Len(s)])

RECURSIVE Pow10(_)
Pow10(n) == IF n = 0 THEN 1 ELSE 10 * Pow10(n - 1)

\* strings.Index(s, ":"): the first position of the separator, 0 when absent.
IndexColon(s) ==
    IF \E i \in 1..Len(s) : s[i] = ":"
    THEN CHOOSE i \in 1..Len(s) : s[i] = ":" /\ \A j \in 1..(i - 1) : s[j] # ":"
    ELSE 0

RECURSIVE Split(_)
\* strings.Split(s, ":"): the fields between the separators; never empty,
\* Split("") is one empty field.
Split(s) ==
    LET i == IndexColon(s) IN
    IF i = 0 THEN <<s>>
    ELSE <<SubSeq(s, 1, i - 1)>> \o Split(SubSeq(s, i + 1, Len(s)))

\* strconv.Atoi: an optional sign, then one or more decimal digits.  The
\* inputs are far shorter than the 19 digits at which Atoi reports a range
\* error.
Atoi(s) ==
    LET signed == s # <<>> /\ s[1] \in {"+", "-"}
        body   == IF signed THEN Tail(s) ELSE s
    IN  IF body = <<>> \/ ~AllDigits(body)
        THEN [ok |-> FALSE, v |-> 0]
        ELSE [ok |-> TRUE,
              v  |-> IF signed /\ s[1] = "-" THEN 0 - DecVal(body) ELSE DecVal(body)]

\* float64 values: a finite value is num/den (den a power of ten); NaN and
\* the infinities are values of their own, as in IEEE 754.
Fin(n, d) == [k |-> "fin", num |-> n, den |-> d]
NaN == [k |-> "nan", num |-> 0, den |-> 1]
Inf(sign) == [k |-> "inf", num |-> sign, den |-> 1]

\* a > b on float64: every comparison with NaN is false.
FGt(a, b) ==
    CASE a.k = "nan" \/ b.k = "nan" -> FALSE
      [] a.k = "inf" /\ b.k = "inf" -> a.num > b.num
      [] a.k = "inf" -> a.num > 0
      [] b.k = "inf" -> b.num < 0
      [] OTHER -> a.num * b.den > b.num * a.den

\* a < b on float64.
FLt(a, b) == FGt(b, a)

\* strconv.ParseFloat(s, 64) on the decimal forms: "NaN", "Inf"/"Infinity"
\* with an optional sign (letters in any case), or an optional sign, digits
\* and at most one point with at least one digit.  Exponents, hexadecimal
\* mantissas and underscores are not among the characters of the inputs.
ParseFloat(s) ==
    LET signed == s # <<>> /\ s[1] \in {"+", "-"}
        sign   == IF signed /\ s[1] = "-" THEN 0 - 1 ELSE 1
        body   == IF signed THEN Tail(s) ELSE s
        low    == LowerSeq(body)
        dot    == IF \E i \in 1..Len(body) : body[i] = "."
                  THEN CHOOSE i \in 1..Len(body) : body[i] = "."
                       /\ \A j \in 1..(i - 1) : body[j] # "."
                  ELSE 0
        ip     == IF dot = 0 THEN body ELSE SubSeq(body, 1, dot - 1)
        fp     == IF dot = 0 THEN <<>> ELSE SubSeq(body, dot + 1, Len(body))
    IN  CASE ~signed /\ low = <<"n", "a", "n">> -> [ok |-> TRUE, v |-> NaN]
          [] low = <<"i", "n", "f">>
             \/ low = <<"i", "n", "f", "i", "n", "i", "t", "y">>
               -> [ok |-> TRUE, v |-> Inf(sign)]
          [] AllDigits(ip) /\ AllDigits(fp) /\ Len(ip) + Len(fp) > 0
               -> [ok |-> TRUE,
                   v  |-> Fin(sign * (DecVal(ip) * Pow10(Len(fp)) + DecVal(fp)),
                              Pow10(Len(fp)))]
          [] OTHER -> [ok |-> FALSE, v |-> Fin(0, 1)]

\* getValueInRange returns a value within bounds
getValueInRange(value, lower, upper) ==
    IF value > upper THEN upper
    ELSE IF value < lower THEN lower
    ELSE value

\* getFloatValueInRange returns a value within bounds
getFloatValueInRange(value, lower, upper) ==
    IF FGt(value, upper) THEN upper
    ELSE IF FLt(value, lower) THEN lower
    ELSE value

\* --------------------------------------------------------------- the state

VARIABLES
    imageSettings,    \* app.imageSettings
    Debug,            \* app.Debug
    selectionBuffer,  \* app.selectionBuffer: ids of the selected nodes
    hidden,           \* ids of the nodes of app.nodeBuffer that are not visible
    md5SumBuffer,     \* digest of the last frame sent
    cCommands,        \* app.cCommands: messages not yet taken by commandLoop
    cmd,              \* commandLoop: the Command decoded in the last iteration
    err,              \* commandLoop: whether that json.Unmarshal returned an error
    calls,            \* collaborator calls made by the last iteration, in order
    cData,            \* app.cData: control replies handed to the client's channel
    gesture,          \* history: a mousedown with Moved was taken since the last mouseup
    run,              \* history: imageSettings before each of the last two invert
                      \* commands taken in a row (empty after any other command)
    cpc,              \* commandLoop's position
    spc,              \* makeScreenShot's position
    rpc,              \* the render loop's position: rendering, or in its onRender
    inflight,         \* the number of makeScreenShot calls that have not returned
    buf,              \* makeScreenShot: imageBit, the encoded frame in hand
    used,             \* makeScreenShot: the settings values it has read
    img,              \* makeScreenShot: the transforms applied to img so far
    encErr,           \* makeScreenShot: whether the encoder returned an error
    ticks,            \* history: the outcomes of the last two completed captures
    stream,           \* history: the last two frames pushed to cImagestream
    boundary,         \* history: imageSettings when the last command completed
    snaps,            \* history: every boundary seen during the running capture
    panicked          \* the process has terminated in panic(err)

vars == <<imageSettings, Debug, selectionBuffer, hidden, md5SumBuffer, cCommands,
          cmd, err, calls, cData, gesture, run, cpc, spc, rpc, inflight, buf, encErr,
          used, img, ticks, stream, boundary, snaps, panicked>>

settingsVars == <<imageSettings, Debug, selectionBuffer, hidden>>
loopVars == <<cCommands, cmd, err, calls, cData, gesture, run, cpc>>
captureVars == <<md5SumBuffer, spc, rpc, inflight, buf, encErr, ticks, stream, panicked>>
raceVars == <<used, img, boundary, snaps>>

\* ----------------------------------------------------------- Command, JSON

\* Command received from client
ZeroCommand ==
    [X |-> 0, Y |-> 0, Cmd |-> "", Val |-> <<>>, Moved |-> FALSE, Ctrl |-> FALSE]

Keys == {"X", "Y", "Cmd", "Val", "Moved", "Ctrl"}

\* JSON values of a payload; JAbsent stands for a key the payload lacks.
JNum(n) == [t |-> "number", n |-> n]
JStr(s) == [t |-> "string", s |-> s]
JBool(b) == [t |-> "bool", b |-> b]
JAbsent == [t |-> "absent"]

\* The JSON type each field of Command accepts.
FieldType(k) ==
    CASE k \in {"X", "Y"} -> "number"
      [] k \in {"Cmd", "Val"} -> "string"
      [] k \in {"Moved", "Ctrl"} -> "bool"

\* A message whose bytes are the JSON object p (a record of JSON values).
Object(p) ==
    [valid |-> TRUE, obj |-> [k \in Keys |-> IF k \in DOMAIN p THEN p[k] ELSE JAbsent]]

\* A message whose bytes are not JSON at all.
Garbage == [valid |-> FALSE, obj |-> [k \in Keys |-> JAbsent]]

\* json.Unmarshal(message, &cmd) into a zero Command.  Invalid JSON is
\* rejected before anything is stored.  In valid JSON a value of the wrong
\* type for its field is skipped, the other fields are still stored, and the
\* error of the first such field is returned.
Unmarshal(message) ==
    LET o == message.obj
        fits(k) == o[k].t = FieldType(k)
    IN  IF ~message.valid THEN [cmd |-> ZeroCommand, err |-> TRUE]
        ELSE [cmd |-> [X     |-> IF fits("X") THEN o["X"].n ELSE 0,
                       Y     |-> IF fits("Y") THEN o["Y"].n ELSE 0,
                       Cmd   |-> IF fits("Cmd") THEN o["Cmd"].s ELSE "",
                       Val   |-> IF fits("Val") THEN o["Val"].s ELSE <<>>,
                       Moved |-> IF fits("Moved") THEN o["Moved"].b ELSE FALSE,
                       Ctrl  |-> IF fits("Ctrl") THEN o["Ctrl"].b ELSE FALSE],
              err |-> \E k \in Keys : o[k].t # "absent" /\ ~fits(k)]

\* mapMouseButton maps js mouse buttons to window mouse buttons
mapMouseButton(value) ==
    CASE value = <<"0">> -> "MouseButtonLeft"
      [] value = <<"1">> -> "MouseButtonMiddle"
      [] value = <<"2">> -> "MouseButtonRight"
      [] OTHER -> "MouseButtonLeft"

\* mapKey maps js keys to window keys
mapKey(value) ==
    CASE value = <<"3", "8">> -> "KeyUp"
      [] value = <<"3", "7">> -> "KeyLeft"
      [] value = <<"3", "9">> -> "KeyRight"
      [] value = <<"4", "0">> -> "KeyDown"
      [] OTHER -> "KeyEnter"

\* -------------------------------------------------------- collaborators

\* The ids of the nodes in app.nodeBuffer.
NodeIds == {<<"a">>, <<"b">>}

\* What a pick at a point can hit: a node, or nothing.
NoNode == <<>>
PickOutcomes == NodeIds \cup {NoNode}

\* app.selectNode(x, y, ctrl): the pick replaces the selection, or extends it
\* when ctrl is held.
selectNode(sel, hit, ctrl) ==
    LET picked == IF hit = NoNode THEN {} ELSE {hit}
    IN  IF ctrl THEN sel \cup picked ELSE picked

\* app.resetSelection()
resetSelection(sel) == {}

\* fmt.Sprintf("%v", node.UserData()): the user-data of a node as text.
UserData(id) == <<"data of ">> \o id

\* Message for client
Message(action, value) == [action |-> action, value |-> value]

\* sendMessageToClient(action, value): what it puts on app.cData.  The message
\* is marshalled and logged; the send to the channel is commented out, so
\* nothing is put there.  json.Marshal of two strings does not fail.
sendMessageToClient(action, value) ==
    LET m == Message(action, value)
        msgJSON == m
    IN  <<>>

\* The quality tiers of ImageSettings.
highQ == "highQ"
mediumQ == "mediumQ"
lowQ == "lowQ"

\* ImageSettings as the application creates it.
DefaultImageSettings(q) ==
    [brightness |-> 0, contrast |-> 0, saturation |-> 0, blur |-> 0,
     pixelation |-> Fin(1, 1), invert |-> FALSE, quality |-> q,
     encoder |-> "libjpeg", isNavigating |-> FALSE]

\* ------------------------------------------------ commandLoop: the cases

\* case "imagesettings": the five stores, each guarded by its own parse.
StoreBrightness(is, s) ==
    LET br == Atoi(s[1]) IN
    IF br.ok THEN [is EXCEPT !.brightness = getValueInRange(br.v, 0 - 100, 100)] ELSE is

StoreContrast(is, s) ==
    LET ct == Atoi(s[2]) IN
    IF ct.ok THEN [is EXCEPT !.contrast = getValueInRange(ct.v, 0 - 100, 100)] ELSE is

StoreSaturation(is, s) ==
    LET sa == Atoi(s[3]) IN
    IF sa.ok THEN [is EXCEPT !.saturation = getValueInRange(sa.v, 0 - 100, 100)] ELSE is

StoreBlur(is, s) ==
    LET bl == Atoi(s[4]) IN
    IF bl.ok THEN [is EXCEPT !.blur = getValueInRange(bl.v, 0, 20)] ELSE is

StorePixelation(is, s) ==
    LET pix == ParseFloat(s[5]) IN
    IF pix.ok
    THEN [is EXCEPT !.pixelation = getFloatValueInRange(pix.v, Fin(1, 1), Fin(10, 1))]
    ELSE is

\* case "imagesettings", whole.
ImageSettingsCase(is, val) ==
    LET s == Split(val) IN
    IF Len(s) = 5
    THEN StorePixelation(StoreBlur(StoreSaturation(StoreContrast(
             StoreBrightness(is, s), s), s), s), s)
    ELSE is

\* A quality case that takes a value that is no integer for an unknown code.
QualityCaseDefaulting(is, val) ==
    LET quality == Atoi(val) IN
    [is EXCEPT !.quality = CASE quality.ok /\ quality.v = 0 -> highQ
                             [] quality.ok /\ quality.v = 2 -> lowQ
                             [] OTHER -> mediumQ]

\* case "quality"
QualityCase(is, val) ==
    LET quality == Atoi(val) IN
    IF quality.ok
    THEN [is EXCEPT !.quality = CASE quality.v = 0 -> highQ
                                  [] quality.v = 2 -> lowQ
                                  [] OTHER -> mediumQ]
    ELSE is

\* An invert case that only ever sets the flag.
InvertCaseSetOnly(is) == [is EXCEPT !.invert = TRUE]

\* case "invert"
InvertCase(is) == [is EXCEPT !.invert = IF is.invert THEN FALSE ELSE TRUE]

\* A mousedown case that takes every press for the start of a drag.
MouseDownCaseAlways(is, c) == [is EXCEPT !.isNavigating = TRUE]

\* case "mousedown"
MouseDownCase(is, c) == IF c.Moved THEN [is EXCEPT !.isNavigating = TRUE] ELSE is

\* case "mouseup"
MouseUpCase(is) == [is EXCEPT !.isNavigating = FALSE]

\* The condition of the "mouse left click" pick.
IsLeftClick(c) == c.Val = <<"0">> /\ ~c.Moved

\* A cursor case that forwards the position only of a pointer that moved.
CursorCaseWhenMoved(c) ==
    IF c.Moved THEN <<[op |-> "OnCursorPos", x |-> c.X, y |-> c.Y]>> ELSE <<>>

\* case "": the calls it makes, app.Orbit().OnCursorPos(&cev).
CursorCase(c) == <<[op |-> "OnCursorPos", x |-> c.X, y |-> c.Y]>>

\* A default case that handles the command as the cursor move of case "".
DefaultCaseAsCursor(c, st) ==
    [is |-> st.is, dbg |-> st.dbg, sel |-> st.sel, hid |-> st.hid,
     calls |-> <<[op |-> "OnCursorPos", x |-> c.X, y |-> c.Y]>>, out |-> <<>>]

\* default: the unknown command is logged, and that is all.
DefaultCase(c, st) ==
    [is |-> st.is, dbg |-> st.dbg, sel |-> st.sel, hid |-> st.hid,
     calls |-> <<>>, out |-> <<>>]

\* The switch of commandLoop on cmd.Cmd: the state after the case of c has
\* run from st = [is, dbg, sel, hid], and the collaborator calls it made.
\* hit is the outcome of the pick, should the case pick.
Dispatch(c, st, hit) ==
    LET same(cs) == [is |-> st.is, dbg |-> st.dbg, sel |-> st.sel, hid |-> st.hid,
                     calls |-> cs, out |-> <<>>]
        withIs(is, cs) == [same(cs) EXCEPT !.is = is]
        mouse(action) == [op |-> "OnMouse", x |-> c.X, y |-> c.Y, action |-> action,
                          button |-> mapMouseButton(c.Val)]
        key(action) == [op |-> "OnKey", action |-> action, keycode |-> mapKey(c.Val)]
        fov == Atoi(c.Val)
    IN  CASE c.Cmd = "" ->
               same(CursorCase(c))
          [] c.Cmd = "mousedown" ->
               withIs(MouseDownCase(st.is, c), <<mouse("Press")>>)
          [] c.Cmd = "zoom" ->
               same(<<[op |-> "OnScroll", x |-> c.X, yoffset |-> Fin(0 - c.Y, 10)]>>)
          [] c.Cmd = "mouseup" ->
               IF IsLeftClick(c)
               THEN [withIs(MouseUpCase(st.is),
                            <<mouse("Release"),
                              [op |-> "selectNode", x |-> c.X, y |-> c.Y, ctrl |-> c.Ctrl]>>)
                       EXCEPT !.sel = selectNode(st.sel, hit, c.Ctrl)]
               ELSE withIs(MouseUpCase(st.is), <<mouse("Release")>>)
          [] c.Cmd = "hide" ->
               [same(<<[op |-> "SetVisible", nodes |-> st.sel, visible |-> FALSE],
                       [op |-> "resetSelection"]>>)
                  EXCEPT !.hid = st.hid \cup st.sel, !.sel = resetSelection(st.sel)]
          [] c.Cmd = "unhide" ->
               [same(<<[op |-> "SetVisible", nodes |-> NodeIds, visible |-> TRUE]>>)
                  EXCEPT !.hid = {}]
          [] c.Cmd = "userdata" ->
               IF c.Val \in NodeIds
               THEN [same(<<>>) EXCEPT
                       !.out = sendMessageToClient("userdata", UserData(c.Val))]
               ELSE same(<<>>)
          [] c.Cmd = "keydown" -> same(<<key("Press")>>)
          [] c.Cmd = "keyup" -> same(<<key("Release")>>)
          [] c.Cmd = "view" -> same(<<[op |-> "setCamera", view |-> c.Val]>>)
          [] c.Cmd = "zoomextent" -> same(<<[op |-> "zoomToExtent"]>>)
          [] c.Cmd = "focus" -> same(<<[op |-> "focusOnSelection"]>>)
          [] c.Cmd = "invert" -> withIs(InvertCase(st.is), <<>>)
          [] c.Cmd = "imagesettings" -> withIs(ImageSettingsCase(st.is, c.Val), <<>>)
          [] c.Cmd = "quality" -> withIs(QualityCase(st.is, c.Val), <<>>)
          [] c.Cmd = "fov" ->
               IF fov.ok
               THEN same(<<[op |-> "SetFov", fov |-> getValueInRange(fov.v, 5, 120)]>>)
               ELSE same(<<>>)
          [] c.Cmd = "debug" ->
               [same(<<>>) EXCEPT !.dbg = IF st.dbg THEN FALSE ELSE TRUE]
          [] c.Cmd = "close" -> same(<<[op |-> "SetShouldClose"]>>)
          [] OTHER -> DefaultCase(c, st)

\* ------------------------------------------------------------ commandLoop

\* The histories keep their last two entries.
Last2(s) == IF Len(s) > 2 THEN Tail(s) ELSE s

\* The state the cases of the switch work on.
AppState == [is |-> imageSettings, dbg |-> Debug, sel |-> selectionBuffer, hid |-> hidden]

\* A capture is between its first and its last read of imageSettings.
Reading == spc \notin {"idle", "send"}

\* A client message reaches cCommands.
Arrive(m) ==
    /\ ~panicked
    /\ Len(cCommands) < MaxQueue
    /\ cCommands' = Append(cCommands, m)
    /\ UNCHANGED <<settingsVars, cmd, err, calls, cData, gesture, run, cpc, captureVars,
                   raceVars>>

\* One iteration of the for loop of commandLoop: take a message, decode it,
\* run the case of cmd.Cmd.  The decode error is logged and the switch runs
\* on whatever cmd holds.
commandLoop(hit) ==
    /\ ~panicked
    /\ cpc = "recv"
    /\ cCommands # <<>>
    /\ LET d == Unmarshal(Head(cCommands))
           r == Dispatch(d.cmd, AppState, hit)
       IN  /\ cCommands' = Tail(cCommands)
           /\ cmd' = d.cmd
           /\ err' = d.err
           /\ imageSettings' = r.is
           /\ Debug' = r.dbg
           /\ selectionBuffer' = r.sel
           /\ hidden' = r.hid
           /\ calls' = r.calls
           /\ cData' = cData \o r.out
           /\ gesture' = CASE d.cmd.Cmd = "mousedown" /\ d.cmd.Moved -> TRUE
                            [] d.cmd.Cmd = "mouseup" -> FALSE
                            [] OTHER -> gesture
           /\ run' = IF d.cmd.Cmd = "invert" THEN Last2(Append(run, imageSettings))
                     ELSE <<>>
           /\ boundary' = r.is
           /\ snaps' = IF Reading THEN snaps \cup {r.is} ELSE snaps
    /\ UNCHANGED <<cpc, captureVars, used, img>>

\* --------------------------------------------------------- makeScreenShot

\* The zero value of [16]byte, which md5SumBuffer holds at start.
ZeroDigest == 0
\* buf when makeScreenShot holds no encoded frame.
NoFrame == 0

\* The byte strings the encoder can produce.
Frames == 1..MaxFrame

\* md5.Sum(imageBit): sixteen bytes for a frame of any length, so distinct
\* frames can share a digest.  No frame of the model hashes to the zero array.
md5Sum(imageBit) == 1 + (imageBit % NumDigests)

\* Faulty gates: one that lets every frame through, one that tests equality.
ChangedAlways(last, md) == TRUE
ChangedInverted(last, md) == last = md

\* The condition of the dedup gate: md5SumBuffer != md.
Changed(last, md) == last # md

\* A send that forgets to remember the digest.
StoreDigestForgotten(last, md) == last

\* md5SumBuffer = md, the statement after the send.
StoreDigest(last, md) == md

\* From the encoder's result to the dedup gate.  An encoder error ends the
\* process in panic(err).  Otherwise the digest of the frame is compared with
\* md5SumBuffer: an equal frame is dropped and the capture is over, a
\* different one goes to the send.
EncodeAndGate(failed, imageBit) ==
    /\ encErr' = failed
    /\ IF failed
       THEN /\ panicked' = TRUE
            /\ spc' = "idle"
            /\ UNCHANGED <<buf, ticks>>
       ELSE /\ IF Changed(md5SumBuffer, md5Sum(imageBit))
               THEN /\ spc' = "send"
                    /\ buf' = imageBit
                    /\ ticks' = ticks
               ELSE /\ spc' = "idle"
                    /\ buf' = NoFrame
                    /\ ticks' = Last2(Append(ticks, [frame |-> imageBit, sent |-> FALSE,
                                                     before |-> md5SumBuffer]))
            /\ UNCHANGED panicked
    /\ UNCHANGED <<md5SumBuffer, stream>>

\* A render loop that starts makeScreenShot and does not wait for it.
onRenderDetached(returned) == "render"

\* onRender calls makeScreenShot and returns when it has returned: until
\* then the render loop is in its handler and renders no further frame.
onRender(returned) == IF returned THEN "render" ELSE "onRender"

\* makeScreenShot returns from the gate when the encoder succeeded and the
\* frame is the one sent last; a changed frame has the send before it.
Returns(failed, imageBit) == ~failed /\ ~Changed(md5SumBuffer, md5Sum(imageBit))

\* onRender: makeScreenShot from the framebuffer read to the dedup gate.  The
\* pixels read, and so the encoder's output, are the scene's: any frame.
makeScreenShot(failed, imageBit) ==
    /\ ~panicked
    /\ rpc = "render"
    /\ inflight < MaxCaptures
    /\ EncodeAndGate(failed, imageBit)
    /\ rpc' = onRender(Returns(failed, imageBit))
    /\ inflight' = IF Returns(failed, imageBit) THEN inflight ELSE inflight + 1
    /\ UNCHANGED <<settingsVars, loopVars, raceVars>>

\* A hand-off that gives the frame up when the transport is not ready: the
\* frame is taken, or it is dropped and its capture returns.
DeliverOrDrop ==
    /\ ~panicked
    /\ spc = "send"
    /\ \/ /\ ticks' = Last2(Append(ticks, [frame |-> buf, sent |-> TRUE,
                                            before |-> md5SumBuffer]))
          /\ stream' = Last2(Append(stream, buf))
          /\ md5SumBuffer' = md5Sum(buf)
       \/ /\ ticks' = Last2(Append(ticks, [frame |-> buf, sent |-> FALSE,
                                            before |-> md5SumBuffer]))
          /\ UNCHANGED <<stream, md5SumBuffer>>
    /\ buf' = NoFrame
    /\ spc' = "idle"
    /\ rpc' = "render"
    /\ inflight' = inflight - 1
    /\ UNCHANGED <<settingsVars, loopVars, raceVars, encErr, panicked>>

\* A hand-off that switches the debug overlay off once a frame went out.
DeliverClearingDebug ==
    /\ ~panicked
    /\ spc = "send"
    /\ ticks' = Last2(Append(ticks, [frame |-> buf, sent |-> TRUE,
                                     before |-> md5SumBuffer]))
    /\ stream' = Last2(Append(stream, buf))
    /\ md5SumBuffer' = md5Sum(buf)
    /\ buf' = NoFrame
    /\ spc' = "idle"
    /\ rpc' = "render"
    /\ inflight' = inflight - 1
    /\ Debug' = FALSE
    /\ UNCHANGED <<imageSettings, selectionBuffer, hidden, loopVars, raceVars, encErr,
                   panicked>>

\* app.cImagestream <- imageBit completes when the transport takes the frame;
\* md5SumBuffer = md follows, and makeScreenShot returns.
Deliver ==
    /\ ~panicked
    /\ spc = "send"
    /\ ticks' = Last2(Append(ticks, [frame |-> buf, sent |-> TRUE,
                                     before |-> md5SumBuffer]))
    /\ stream' = Last2(Append(stream, buf))
    /\ md5SumBuffer' = StoreDigest(md5SumBuffer, md5Sum(buf))
    /\ buf' = NoFrame
    /\ spc' = "idle"
    /\ rpc' = onRender(TRUE)
    /\ inflight' = inflight - 1
    /\ UNCHANGED <<settingsVars, loopVars, raceVars, encErr, panicked>>

\* ----------------------------------- the two activities, statement by statement

\* imageSettings.getPixelation()
getPixelation(is) == is.pixelation

\* imageSettings.getJpegQuality(), as far as it reads the settings.
getJpegQuality(is) == is.quality

\* The stores of case "imagesettings", in program order.
StoreOrder == <<"brightness", "contrast", "saturation", "blur", "pixelation">>

\* The message at the head of cCommands is an imagesettings command whose Val
\* has five fields: the case that stores field by field.
HeadStoresFields ==
    LET c == Unmarshal(Head(cCommands)).cmd
    IN  c.Cmd = "imagesettings" /\ Len(Split(c.Val)) = 5

\* commandLoop takes an imagesettings command of five fields; its stores
\* follow one at a time.
beginImageSettings ==
    /\ ~panicked
    /\ cpc = "recv"
    /\ cCommands # <<>>
    /\ HeadStoresFields
    /\ LET d == Unmarshal(Head(cCommands))
       IN  /\ cCommands' = Tail(cCommands)
           /\ cmd' = d.cmd
           /\ err' = d.err
    /\ calls' = <<>>
    /\ cpc' = StoreOrder[1]
    /\ run' = <<>>
    /\ UNCHANGED <<settingsVars, cData, gesture, captureVars, raceVars>>

\* One store of case "imagesettings"; after the last the command is complete.
storeField ==
    /\ ~panicked
    /\ \E i \in 1..Len(StoreOrder) :
         /\ cpc = StoreOrder[i]
         /\ LET s == Split(cmd.Val)
                is == CASE i = 1 -> StoreBrightness(imageSettings, s)
                        [] i = 2 -> StoreContrast(imageSettings, s)
                        [] i = 3 -> StoreSaturation(imageSettings, s)
                        [] i = 4 -> StoreBlur(imageSettings, s)
                        [] i = 5 -> StorePixelation(imageSettings, s)
            IN  /\ imageSettings' = is
                /\ IF i < Len(StoreOrder)
                   THEN /\ cpc' = StoreOrder[i + 1]
                        /\ UNCHANGED <<boundary, snaps>>
                   ELSE /\ cpc' = "recv"
                        /\ boundary' = is
                        /\ snaps' = IF Reading THEN snaps \cup {is} ELSE snaps
    /\ UNCHANGED <<Debug, selectionBuffer, hidden, cCommands, cmd, err, calls,
                   cData, gesture, run, captureVars, used, img>>

\* What the read at position pos of makeScreenShot yields from settings is.
ReadOf(pos, is) ==
    CASE pos \in {"pixGate", "pixW", "pixH"} -> getPixelation(is)
      [] pos \in {"brGate", "br"} -> is.brightness
      [] pos \in {"ctGate", "ct"} -> is.contrast
      [] pos \in {"saGate", "sa"} -> is.saturation
      [] pos \in {"blGate", "bl"} -> is.blur
      [] pos = "invert" -> is.invert
      [] pos = "encoder" -> is.encoder
      [] pos = "quality" -> getJpegQuality(is)

\* The position after the read at pos yielded v: a gate that finds its
\* parameter neutral skips the transform and with it the second read; the
\* png encoder takes no quality.
AfterRead(pos, v) ==
    CASE pos = "pixGate" -> IF FGt(v, Fin(1, 1)) THEN "pixW" ELSE "brGate"
      [] pos = "pixW" -> "pixH"
      [] pos = "pixH" -> "brGate"
      [] pos = "brGate" -> IF v # 0 THEN "br" ELSE "ctGate"
      [] pos = "br" -> "ctGate"
      [] pos = "ctGate" -> IF v # 0 THEN "ct" ELSE "saGate"
      [] pos = "ct" -> "saGate"
      [] pos = "saGate" -> IF v # 0 THEN "sa" ELSE "blGate"
      [] pos = "sa" -> "blGate"
      [] pos = "blGate" -> IF v # 0 THEN "bl" ELSE "invert"
      [] pos = "bl" -> "invert"
      [] pos = "invert" -> "debug"
      [] pos = "encoder" -> IF v = "png" THEN "encode" ELSE "quality"
      [] pos = "quality" -> "encode"

\* A pipeline that flips the image before it inverts it.
TransformAtFlipFirst(pos, v) ==
    CASE pos = "pixH" -> <<"pixelate">>
      [] pos = "br" -> <<"brightness">>
      [] pos = "ct" -> <<"contrast">>
      [] pos = "sa" -> <<"saturation">>
      [] pos = "bl" -> <<"blur">>
      [] pos = "invert" -> <<"flip">> \o (IF v THEN <<"invert">> ELSE <<>>)
      [] OTHER -> <<>>

\* The transforms makeScreenShot applies to img once the read at pos has
\* yielded v: the imaging call that takes the value as its last argument;
\* after the read of invert, imaging.Invert when set and then imaging.FlipV.
TransformAt(pos, v) ==
    CASE pos = "pixH" -> <<"pixelate">>
      [] pos = "br" -> <<"brightness">>
      [] pos = "ct" -> <<"contrast">>
      [] pos = "sa" -> <<"saturation">>
      [] pos = "bl" -> <<"blur">>
      [] pos = "invert" -> (IF v THEN <<"invert">> ELSE <<>>) \o <<"flip">>
      [] OTHER -> <<>>

\* if app.Debug { img = DrawByteGraph(img) }
DebugOverlay(dbg) == IF dbg THEN <<"debug">> ELSE <<>>

\* onRender: makeScreenShot starts and reads the framebuffer.
beginCapture ==
    /\ ~panicked
    /\ rpc = "render"
    /\ inflight < MaxCaptures
    /\ rpc' = onRender(FALSE)
    /\ inflight' = inflight + 1
    /\ spc' = "pixGate"
    /\ used' = <<>>
    /\ img' = <<>>
    /\ snaps' = {boundary}
    /\ UNCHANGED <<settingsVars, loopVars, md5SumBuffer, buf, encErr, ticks, stream,
                   boundary, panicked>>

\* makeScreenShot reads one value of imageSettings.
readSetting ==
    /\ ~panicked
    /\ spc \notin {"idle", "debug", "encode", "send"}
    /\ LET v == ReadOf(spc, imageSettings)
       IN  /\ used' = [pos \in DOMAIN used \cup {spc} |->
                          IF pos = spc THEN v ELSE used[pos]]
           /\ img' = img \o TransformAt(spc, v)
           /\ spc' = AfterRead(spc, v)
    /\ UNCHANGED <<settingsVars, loopVars, md5SumBuffer, rpc, inflight, buf, encErr,
                   ticks, stream, boundary, snaps, panicked>>

\* makeScreenShot reads app.Debug and draws the byte graph when it is set.
readDebug ==
    /\ ~panicked
    /\ spc = "debug"
    /\ img' = img \o DebugOverlay(Debug)
    /\ spc' = "encoder"
    /\ UNCHANGED <<settingsVars, loopVars, md5SumBuffer, rpc, inflight, buf, encErr,
                   ticks, stream, used, boundary, snaps, panicked>>

\* makeScreenShot encodes what it has made of the frame and goes to the gate.
encodeCapture(failed, imageBit) ==
    /\ ~panicked
    /\ spc = "encode"
    /\ EncodeAndGate(failed, imageBit)
    /\ rpc' = IF Returns(failed, imageBit) THEN onRender(TRUE) ELSE rpc
    /\ inflight' = IF Returns(failed, imageBit) THEN inflight - 1 ELSE inflight
    /\ used' = <<>>
    /\ img' = <<>>
    /\ snaps' = {}
    /\ UNCHANGED <<settingsVars, loopVars, boundary>>

\* ------------------------------------------------------------------- Init

InitWith(is, dbg) ==
    /\ imageSettings = is
    /\ Debug = dbg
    /\ selectionBuffer = {}
    /\ hidden = {}
    /\ md5SumBuffer = ZeroDigest
    /\ cCommands = <<>>
    /\ cmd = ZeroCommand
    /\ err = FALSE
    /\ calls = <<>>
    /\ cData = <<>>
    /\ gesture = FALSE
    /\ run = <<>>
    /\ cpc = "recv"
    /\ spc = "idle"
    /\ rpc = "render"
    /\ inflight = 0
    /\ buf = NoFrame
    /\ encErr = FALSE
    /\ used = <<>>
    /\ img = <<>>
    /\ ticks = <<>>
    /\ stream = <<>>
    /\ boundary = imageSettings
    /\ snaps = {}
    /\ panicked = FALSE

InitAt(q) == InitWith(DefaultImageSettings(q), FALSE)

Init == InitAt(mediumQ)

\* ----------------------------------------------- the capture and its commands

\* "150:-5:0:25:0.5"
ValExample ==
    <<"1", "5", "0", ":", "-", "5", ":", "0", ":", "2", "5", ":", "0", ".", "5">>

\* Messages: bytes that are no JSON, a command with a field of the wrong
\* type, and well-formed commands.
CoreMessages ==
    { Garbage,
      Object([X |-> JStr(<<"a">>), Cmd |-> JStr("invert")]),
      Object([Cmd |-> JStr("invert")]),
      Object([Cmd |-> JStr("debug")]) }

Next ==
    \/ \E m \in CoreMessages : Arrive(m)
    \/ \E hit \in PickOutcomes : commandLoop(hit)
    \/ \E imageBit \in Frames : makeScreenShot(FALSE, imageBit)
    \/ makeScreenShot(TRUE, NoFrame)
    \/ Deliver

Spec == Init /\ [][Next]_vars

\* ------------------------------------------------------------ properties
\* of the capture (Spec)

\* A completed capture sent its frame only past the gate.
GateRespected(t) == t.sent => md5Sum(t.frame) # t.before

\* Two captures have completed one after the other.
TwoTicks == Len(ticks) = 2

\* C1, as claimed: consecutive transmitted frames have different digests, a
\* frame whose digest equals md5SumBuffer is never sent, and two consecutive
\* ticks with byte-identical output transmit exactly one frame.
C1_ExactlyOneOfTwoIdentical ==
    /\ Len(stream) = 2 => md5Sum(stream[1]) # md5Sum(stream[2])
    /\ \A i \in 1..Len(ticks) : GateRespected(ticks[i])
    /\ (TwoTicks /\ ticks[1].frame = ticks[2].frame)
         => (ticks[1].sent # ticks[2].sent)

\* C1, amended: consecutive transmitted frames have different digests, a
\* frame whose digest equals md5SumBuffer is never sent, and of two
\* consecutive ticks with byte-identical output the second is never
\* transmitted and the first is transmitted exactly when its digest differs
\* from md5SumBuffer: at most one frame, not always one.
C1_NoEqualConsecutiveFrames ==
    /\ Len(stream) = 2 => md5Sum(stream[1]) # md5Sum(stream[2])
    /\ \A i \in 1..Len(ticks) : GateRespected(ticks[i])
    /\ (TwoTicks /\ ticks[1].frame = ticks[2].frame)
         => /\ ~ticks[2].sent
            /\ ticks[1].sent = (md5Sum(ticks[1].frame) # ticks[1].before)

\* Two identical frames in a row, the first sent and the second dropped,
\* after an earlier frame had been sent.
C1_Witness ==
    /\ TwoTicks /\ ticks[1].frame = ticks[2].frame
    /\ ticks[1].sent /\ ~ticks[2].sent
    /\ Len(stream) = 2

\* C2: md5SumBuffer is the digest of the last frame pushed to cImagestream,
\* or the zero array before any frame was pushed; this holds while a frame
\* waits for its hand-off too, so the digest is written only once the send
\* has succeeded and by nothing but the gate.
C2_DigestOfLastSent ==
    md5SumBuffer = IF stream = <<>> THEN ZeroDigest
                   ELSE md5Sum(stream[Len(stream)])

\* A second frame has passed the gate and waits for the transport, while
\* md5SumBuffer still holds the digest of the first.
C2_Witness ==
    /\ spc = "send"
    /\ Len(stream) = 1
    /\ md5SumBuffer = md5Sum(stream[1])
    /\ md5Sum(buf) # md5SumBuffer

\* What C3 concludes of two consecutive ticks: both frames were sent, in tick
\* order, and md5SumBuffer took each frame's digest after its send.
BothSentInOrder ==
    /\ ticks[1].sent /\ ticks[2].sent
    /\ stream = <<ticks[1].frame, ticks[2].frame>>
    /\ ticks[2].before = md5Sum(ticks[1].frame)
    /\ md5SumBuffer = md5Sum(ticks[2].frame)

\* C3, as claimed: two consecutive ticks whose encoded outputs differ, the
\* first differing from md5SumBuffer, are both transmitted in order.
C3_DifferentBytesBothSent ==
    (/\ TwoTicks
     /\ ticks[1].frame # ticks[2].frame
     /\ md5Sum(ticks[1].frame) # ticks[1].before)
        => BothSentInOrder

\* C3, amended: two consecutive ticks whose encoded outputs have different
\* digests, the first differing from md5SumBuffer, are both transmitted in
\* tick order, and md5SumBuffer is updated to each frame's digest after that
\* frame is sent.  (Different bytes with one digest: the second is dropped.)
C3_DifferentDigestsBothSent ==
    (/\ TwoTicks
     /\ md5Sum(ticks[1].frame) # md5Sum(ticks[2].frame)
     /\ md5Sum(ticks[1].frame) # ticks[1].before)
        => BothSentInOrder

C3_Witness ==
    /\ TwoTicks
    /\ md5Sum(ticks[1].frame) # md5Sum(ticks[2].frame)
    /\ md5Sum(ticks[1].frame) # ticks[1].before
    /\ BothSentInOrder

\* ------------------------------------------------------------ properties
\* of the command loop (Spec)

\* The step of commandLoop that takes a message.
TakeStep == cCommands # <<>> /\ cCommands' = Tail(cCommands)

\* C5: a message that fails to decode is dropped with no state change:
\* imageSettings, Debug, the selection, node visibility and md5SumBuffer
\* keep their values and no collaborator operation is invoked.
C5_DecodeErrorChangesNothing ==
    [][(TakeStep /\ err')
         => /\ UNCHANGED <<imageSettings, Debug, selectionBuffer, hidden, md5SumBuffer>>
            /\ calls' = <<>>]_vars

\* C6: after a malformed message the loop keeps serving: whatever waits on
\* cCommands has a running loop, at its receive, to take it.
C6_LoopServesAfterDecodeError ==
    (err /\ cCommands # <<>>) => (~panicked /\ cpc = "recv")

\* C7: an encoder error fails that capture only: the process runs on and
\* makeScreenShot is ready for the next tick, with no frame in hand.
C7_EncodeErrorIsRecoverable ==
    encErr => (~panicked /\ spc = "idle" /\ buf = NoFrame)

\* ------------------------------------------------ imagesettings (SpecSettings)

\* The Val of an imagesettings command: fields joined by ":".
RECURSIVE Join(_)
Join(fields) ==
    IF Len(fields) = 1 THEN fields[1]
    ELSE fields[1] \o <<":">> \o Join(Tail(fields))

ImageSettingsCommand(val) == Object([Cmd |-> JStr("imagesettings"), Val |-> JStr(val)])

\* imagesettings commands: the documented example, values beyond both bounds,
\* fields that do not parse, NaN and Inf, and too few and too many fields.
SettingsMessages ==
    { ImageSettingsCommand(ValExample),
      ImageSettingsCommand(Join(<< <<"0">>, <<"0">>, <<"0">>, <<"0">>, <<"N", "a", "N">> >>)),
      ImageSettingsCommand(Join(<< <<"-", "2", "0", "0">>, <<"x">>, <<"7">>, <<>>,
                                   <<"2", ".", "5">> >>)),
      ImageSettingsCommand(Join(<< <<"x">>, <<"2", "0", "0">>, <<"x">>, <<"-", "3">>,
                                   <<"I", "n", "f">> >>)),
      ImageSettingsCommand(Join(<< <<"1">>, <<"2">>, <<"3">>, <<"4">> >>)),
      ImageSettingsCommand(Join(<< <<"1">>, <<"2">>, <<"3">>, <<"4">>, <<"5">>, <<"6">> >>)) }

NextSettings ==
    \/ \E m \in SettingsMessages : Arrive(m)
    \/ \E hit \in PickOutcomes : commandLoop(hit)

SpecSettings == Init /\ [][NextSettings]_vars

\* lo <= v <= hi on float64: false of NaN.
FInRange(v, lo, hi) ==
    /\ v.k # "nan"
    /\ ~FLt(v, lo)
    /\ ~FGt(v, hi)

\* C8: every numeric field of imageSettings is within its declared range in
\* every state: brightness, contrast and saturation in [-100,100], blur in
\* [0,20], pixelation in [1.0,10.0].
C8_SettingsInRange ==
    /\ imageSettings.brightness \in (0 - 100)..100
    /\ imageSettings.contrast \in (0 - 100)..100
    /\ imageSettings.saturation \in (0 - 100)..100
    /\ imageSettings.blur \in 0..20
    /\ FInRange(imageSettings.pixelation, Fin(1, 1), Fin(10, 1))

\* r is the integer v brought into lo..hi: v itself when it lies in the
\* range, else the bound on v's side.
Nearest(r, v, lo, hi) ==
    /\ r \in lo..hi
    /\ v \in lo..hi => r = v
    /\ v > hi => r = hi
    /\ v < lo => r = lo

\* r is the float64 v brought into [lo, hi].
FNearest(r, v, lo, hi) ==
    /\ FInRange(r, lo, hi)
    /\ FInRange(v, lo, hi) => r = v
    /\ FGt(v, hi) => r = hi
    /\ FLt(v, lo) => r = lo

\* The step of commandLoop that took a command of the given kind.
TakeStepOf(kind) == TakeStep /\ cmd'.Cmd = kind

\* C9: an imagesettings command with exactly five fields stores every field
\* that parses, clamped to its range, and leaves every field that does not
\* parse at its previous value; with any other number of fields it changes
\* nothing; it never changes invert, quality, encoder or isNavigating.
C9_FieldsIndependent ==
    [][TakeStepOf("imagesettings") =>
        LET s   == Split(cmd'.Val)
            old == imageSettings
            new == imageSettings'
            int(i, was, now, lo, hi) ==
                IF Atoi(s[i]).ok THEN Nearest(now, Atoi(s[i]).v, lo, hi) ELSE now = was
        IN  /\ new.invert = old.invert
            /\ new.quality = old.quality
            /\ new.encoder = old.encoder
            /\ new.isNavigating = old.isNavigating
            /\ IF Len(s) = 5
               THEN /\ int(1, old.brightness, new.brightness, 0 - 100, 100)
                    /\ int(2, old.contrast, new.contrast, 0 - 100, 100)
                    /\ int(3, old.saturation, new.saturation, 0 - 100, 100)
                    /\ int(4, old.blur, new.blur, 0, 20)
                    /\ IF ParseFloat(s[5]).ok
                       THEN FNearest(new.pixelation, ParseFloat(s[5]).v,
                                     Fin(1, 1), Fin(10, 1))
                       ELSE new.pixelation = old.pixelation
               ELSE new = old]_vars

\* ------------------------------------------------------ quality (SpecQuality)

QualityCommand(val) == Object([Cmd |-> JStr("quality"), Val |-> JStr(val)])

\* quality commands with the codes 0, 2 and 7, with +2 and with a value that
\* is no integer; and two commands of other kinds.
QualityMessages ==
    { QualityCommand(<<"0">>), QualityCommand(<<"2">>), QualityCommand(<<"7">>),
      QualityCommand(<<"+", "2">>), QualityCommand(<<"x">>),
      ImageSettingsCommand(ValExample),
      Object([Cmd |-> JStr("invert")]) }

InitAnyQuality == \E q \in {highQ, mediumQ, lowQ} : InitAt(q)

NextQuality ==
    \/ \E m \in QualityMessages : Arrive(m)
    \/ \E hit \in PickOutcomes : commandLoop(hit)

SpecQuality == InitAnyQuality /\ [][NextQuality]_vars

\* C10, as claimed: after a quality command the tier is High when Val is
\* "0", Low when Val is "2", and Medium for every other Val.
C10_EveryOtherValIsMedium ==
    [][TakeStepOf("quality") =>
        imageSettings'.quality = CASE cmd'.Val = <<"0">> -> highQ
                                   [] cmd'.Val = <<"2">> -> lowQ
                                   [] OTHER -> mediumQ]_vars

\* C10, amended: after a quality command whose Val parses as an integer the
\* tier is High for 0, Low for 2 and Medium for every other integer; a Val
\* that is no integer leaves the tier as it was.  No other field changes.
C10_QualityByInteger ==
    [][TakeStepOf("quality") =>
        LET n == Atoi(cmd'.Val) IN
        /\ imageSettings'.quality =
              IF ~n.ok THEN imageSettings.quality
              ELSE IF n.v = 0 THEN highQ
              ELSE IF n.v = 2 THEN lowQ
              ELSE mediumQ
        /\ [imageSettings' EXCEPT !.quality = imageSettings.quality] = imageSettings]_vars

\* A quality command whose Val is no integer has run and the tier is still
\* Low.
C10_Witness ==
    /\ cmd.Cmd = "quality"
    /\ ~Atoi(cmd.Val).ok
    /\ calls = <<>>
    /\ imageSettings.quality = lowQ

\* ------------------------------------- capture against commands (SpecRace)

\* "0:0:0:0:2.5"
ValPixelate == Join(<< <<"0">>, <<"0">>, <<"0">>, <<"0">>, <<"2", ".", "5">> >>)

RaceMessages == { ImageSettingsCommand(ValExample), ImageSettingsCommand(ValPixelate) }

\* The encoder's output in SpecRace.
RaceFrames == {MaxFrame}

NextRace ==
    \/ \E m \in RaceMessages : Arrive(m)
    \/ beginImageSettings
    \/ storeField
    \/ beginCapture
    \/ readSetting
    \/ readDebug
    \/ \E imageBit \in RaceFrames : encodeCapture(FALSE, imageBit)
    \/ encodeCapture(TRUE, NoFrame)
    \/ Deliver

SpecRace == Init /\ [][NextRace]_vars

\* The values a capture read are those of settings s.
ReadFrom(s) == \A pos \in DOMAIN used : used[pos] = ReadOf(pos, s)

\* C4: the values one capture has read of imageSettings are the settings as
\* they stood at one point between two completely applied commands: when the
\* capture started, or after a command that completed while it ran.
C4_CaptureReadsOneSnapshot ==
    spc = "encode" => \E s \in snaps : ReadFrom(s)

\* ------------------------------------------------- pointer input (SpecMouse)

\* A command of the given kind at (10, 20).
PointerCommand(kind, val, moved, ctrl) ==
    Object([X |-> JNum(10), Y |-> JNum(20), Cmd |-> JStr(kind), Val |-> JStr(val),
            Moved |-> JBool(moved), Ctrl |-> JBool(ctrl)])

\* The button codes a client sends: the three known ones and an unknown one.
ButtonCodes == {<<"0">>, <<"1">>, <<"2">>, <<"9">>}

\* mouseup and mousedown commands of every button code, moved or not, with
\* and without Ctrl; and commands of two other kinds.
MouseMessages ==
    { PointerCommand("mouseup", b, m, c) : b \in ButtonCodes, m \in BOOLEAN, c \in BOOLEAN }
      \cup { PointerCommand("mousedown", <<"0">>, m, FALSE) : m \in BOOLEAN }
      \cup { PointerCommand("", <<>>, TRUE, FALSE), Object([Cmd |-> JStr("invert")]) }

NextMouse ==
    \/ \E m \in MouseMessages : Arrive(m)
    \/ \E hit \in PickOutcomes : commandLoop(hit)

SpecMouse == Init /\ [][NextMouse]_vars

\* The button a code stands for, as the mapping is documented.
ButtonOf(code) ==
    CASE code = <<"1">> -> "MouseButtonMiddle"
      [] code = <<"2">> -> "MouseButtonRight"
      [] OTHER -> "MouseButtonLeft"

\* C11: a mouseup command forwards a release event with the mapped button,
\* sets isNavigating to false, and picks at (X,Y) with extend = Ctrl exactly
\* when the mapped button is Left and Moved is false, unknown codes mapping
\* to Left.
C11_MouseUpPicksOnLeft ==
    [][TakeStepOf("mouseup") =>
        LET c == cmd'
            release == [op |-> "OnMouse", x |-> c.X, y |-> c.Y, action |-> "Release",
                        button |-> ButtonOf(c.Val)]
            pick == [op |-> "selectNode", x |-> c.X, y |-> c.Y, ctrl |-> c.Ctrl]
        IN  /\ ~imageSettings'.isNavigating
            /\ calls' = IF ButtonOf(c.Val) = "MouseButtonLeft" /\ ~c.Moved
                        THEN <<release, pick>>
                        ELSE <<release>>]_vars

\* ----------------------------------------------- node commands (SpecNodes)

NodeCommand(kind, val) == Object([Cmd |-> JStr(kind), Val |-> JStr(val)])

\* userdata commands for the two nodes and for an id no node has; a left
\* click with and without Ctrl, hide and unhide.
NodeMessages ==
    { NodeCommand("userdata", id) : id \in NodeIds \cup {<<"z">>} }
      \cup { PointerCommand("mouseup", <<"0">>, FALSE, c) : c \in BOOLEAN }
      \cup { NodeCommand("hide", <<>>), NodeCommand("unhide", <<>>) }

NextNodes ==
    \/ \E m \in NodeMessages : Arrive(m)
    \/ \E hit \in PickOutcomes : commandLoop(hit)

SpecNodes == Init /\ [][NextNodes]_vars

\* C12: a userdata command for a known node puts exactly one message with
\* action "userdata" and the node's user-data as text on the channel to the
\* client; for an unknown node id it sends nothing and changes no state.
C12_UserDataIsDelivered ==
    [][TakeStepOf("userdata") =>
        /\ UNCHANGED <<imageSettings, Debug, selectionBuffer, hidden, md5SumBuffer>>
        /\ cData' = IF cmd'.Val \in NodeIds
                    THEN Append(cData, Message("userdata", UserData(cmd'.Val)))
                    ELSE cData]_vars

\* ------------------------------------------------------ re-entrancy (Spec)

\* C13: at most one makeScreenShot is in flight: the render loop is in its
\* handler exactly while one is, so the gate's read of md5SumBuffer, the send
\* and the store of md5SumBuffer belong to one capture, with no frame of
\* another capture between them.
C13_OneCaptureInFlight ==
    /\ inflight \in {0, 1}
    /\ ~panicked => (inflight = 1 <=> spc = "send")
    /\ ~panicked => (inflight = 1 <=> rpc = "onRender")
    /\ spc = "send" =>
         md5SumBuffer = IF stream = <<>> THEN ZeroDigest ELSE md5Sum(stream[Len(stream)])

\* A capture waits at its send, a frame sent before it, and the render loop
\* waits in onRender.
C13_Witness ==
    /\ spc = "send"
    /\ inflight = 1
    /\ rpc = "onRender"
    /\ Len(stream) = 1

\* ------------------------------------------------------- invert (SpecInvert)

\* invert commands, with and without the other keys, and commands that
\* change other settings.
InvertMessages ==
    { Object([Cmd |-> JStr("invert")]),
      PointerCommand("invert", <<"1">>, TRUE, TRUE),
      QualityCommand(<<"2">>),
      ImageSettingsCommand(ValExample),
      PointerCommand("mousedown", <<"0">>, TRUE, FALSE) }

NextInvert ==
    \/ \E m \in InvertMessages : Arrive(m)
    \/ \E hit \in PickOutcomes : commandLoop(hit)

SpecInvert == InitAnyQuality /\ [][NextInvert]_vars

\* C14: each invert command flips the invert flag and changes no other field
\* of imageSettings, and two invert commands in a row leave imageSettings as
\* it was before the first, whichever value the flag had.
C14_InvertTwiceRestores ==
    /\ Len(run) >= 1 =>
         imageSettings = [run[Len(run)] EXCEPT !.invert = ~run[Len(run)].invert]
    /\ Len(run) = 2 => imageSettings = run[1]

\* Two invert commands were taken in a row from settings with the flag set,
\* and other settings off their defaults.
C14_Witness ==
    /\ Len(run) = 2
    /\ run[1].invert /\ ~run[2].invert
    /\ imageSettings.invert
    /\ imageSettings.brightness = 100

\* --------------------------------------------- unknown kinds (SpecUnknown)

\* The kinds of the action table.
KnownKinds ==
    {"", "mousedown", "mouseup", "zoom", "hide", "unhide", "userdata", "keydown",
     "keyup", "view", "zoomextent", "focus", "invert", "imagesettings", "quality",
     "fov", "debug", "close"}

\* Commands of kinds the table does not have, one of them a known kind in
\* other letter case, with keys a known kind would act on; and commands that
\* bring the settings, the debug flag, the selection and the visibility off
\* their initial values.
UnknownMessages ==
    { PointerCommand("bogus", <<"0">>, FALSE, TRUE),
      PointerCommand("MouseUp", <<"0">>, FALSE, FALSE),
      NodeCommand("userData", <<"a">>),
      Object([Cmd |-> JStr("invert")]),
      Object([Cmd |-> JStr("debug")]),
      PointerCommand("mouseup", <<"0">>, FALSE, FALSE),
      NodeCommand("hide", <<>>) }

NextUnknown ==
    \/ \E m \in UnknownMessages : Arrive(m)
    \/ \E hit \in PickOutcomes : commandLoop(hit)

SpecUnknown == Init /\ [][NextUnknown]_vars

\* C15: a command whose Cmd is none of the kinds of the action table changes
\* nothing: imageSettings, Debug, the selection, node visibility and
\* md5SumBuffer keep their values, no render-engine operation is invoked and
\* no message is sent to the client.
C15_UnknownKindIsNoOp ==
    [][(TakeStep /\ cmd'.Cmd \notin KnownKinds) =>
         /\ UNCHANGED <<imageSettings, Debug, selectionBuffer, hidden, md5SumBuffer>>
         /\ calls' = <<>>
         /\ cData' = cData]_vars

\* An unknown command was taken with the invert and debug flags set and a
\* node hidden.
C15_Witness ==
    /\ cmd.Cmd \notin KnownKinds
    /\ calls = <<>>
    /\ imageSettings.invert
    /\ Debug
    /\ hidden # {}

\* ------------------------------------------------ cursor moves (SpecCursor)

\* Payloads with an empty Cmd and with no Cmd key, at two points, with every
\* value of Moved and Ctrl and with a Val other kinds would act on; and
\* commands that bring imageSettings off its defaults.
CursorMessages ==
    { PointerCommand("", v, m, c) : v \in {<<>>, <<"0">>}, m \in BOOLEAN, c \in BOOLEAN }
      \cup { Object([X |-> JNum(3), Y |-> JNum(0 - 4), Val |-> JStr(ValExample),
                     Moved |-> JBool(m)]) : m \in BOOLEAN }
      \cup { Object([Cmd |-> JStr("invert")]), ImageSettingsCommand(ValExample),
             PointerCommand("mousedown", <<"0">>, TRUE, FALSE) }

NextCursor ==
    \/ \E m \in CursorMessages : Arrive(m)
    \/ \E hit \in PickOutcomes : commandLoop(hit)

SpecCursor == Init /\ [][NextCursor]_vars

\* The number under key k of the payload of message m, zero when absent.
NumberAt(m, k) == IF m.obj[k].t = "number" THEN m.obj[k].n ELSE 0

\* The payload of message m has no Cmd key, or an empty one.
EmptyCmd(m) == m.obj["Cmd"].t = "absent" \/ m.obj["Cmd"] = JStr("")

\* C16: a payload that decodes without error and whose Cmd is empty or
\* absent forwards exactly one cursor-position event carrying its (X,Y),
\* whatever Moved, Ctrl and Val are, and changes no field of imageSettings.
C16_EmptyCmdMovesCursor ==
    [][(TakeStep /\ ~err' /\ EmptyCmd(Head(cCommands))) =>
         /\ calls' = <<[op |-> "OnCursorPos", x |-> NumberAt(Head(cCommands), "X"),
                        y |-> NumberAt(Head(cCommands), "Y")]>>
         /\ imageSettings' = imageSettings]_vars

\* A payload with no Cmd key, with Moved false and a Val of five fields, was
\* taken as a cursor move at (3,-4) while the settings were off their defaults.
C16_Witness ==
    /\ ~err
    /\ cmd = [ZeroCommand EXCEPT !.X = 3, !.Y = 0 - 4, !.Val = ValExample]
    /\ calls = <<[op |-> "OnCursorPos", x |-> 3, y |-> 0 - 4]>>
    /\ imageSettings.invert
    /\ imageSettings.brightness = 100

\* ----------------------------------------------- isNavigating (SpecMouse)

\* C17: isNavigating is true exactly when a mousedown command with Moved was
\* taken since the last mouseup command, or since startup: a mousedown with
\* Moved sets it, one without leaves it, every mouseup clears it and no
\* other kind of command changes it.
C17_NavigatingWhileDragging ==
    imageSettings.isNavigating = gesture

\* A mousedown without Moved was taken during a drag, and isNavigating is
\* still set.
C17_Witness ==
    /\ cmd.Cmd = "mousedown"
    /\ ~cmd.Moved
    /\ gesture
    /\ imageSettings.isNavigating

\* ------------------------------------------- who writes what (Spec)

\* A step of makeScreenShot: its position, its frame in hand, its record of
\* completed captures or its encoder result changes.
CaptureStep ==
    \/ spc' # spc
    \/ buf' # buf
    \/ inflight' # inflight
    \/ ticks' # ticks
    \/ encErr' # encErr
    \/ panicked' # panicked

\* C18: no step of a capture changes a field of imageSettings or the debug
\* flag, and no command taken by the command loop changes md5SumBuffer or
\* puts a frame on the image stream.
C18_DisjointWrites ==
    [][/\ CaptureStep => UNCHANGED <<imageSettings, Debug>>
       /\ TakeStep => UNCHANGED <<md5SumBuffer, stream>>]_vars

\* Frames went out while the invert and debug flags were set, and a command
\* was taken after the last of them.
C18_Witness ==
    /\ Len(stream) = 2
    /\ md5SumBuffer = md5Sum(stream[2])
    /\ imageSettings.invert
    /\ Debug
    /\ cmd.Cmd = "debug"
    /\ spc = "send"

\* ------------------------------------------------- backpressure (Spec)

\* C19: the hand-off blocks and drops nothing.  While a capture waits at its
\* send, the frame in hand and md5SumBuffer stay as they are and nothing
\* goes out; the capture leaves the send only by the transport taking the
\* frame, which is then the last on the stream, with md5SumBuffer its
\* digest; and a capture that completed without sending had a frame whose
\* digest was md5SumBuffer.
C19_BlockingHandOff ==
    [][/\ (spc = "send" /\ spc' = "send") =>
            UNCHANGED <<buf, md5SumBuffer, stream, ticks>>
       /\ (spc = "send" /\ spc' # "send") =>
            /\ stream' # <<>>
            /\ stream'[Len(stream')] = buf
            /\ md5SumBuffer' = md5Sum(buf)
            /\ spc' = "idle"
            /\ ~panicked'
       /\ \A i \in 1..Len(ticks') :
            ~ticks'[i].sent => md5Sum(ticks'[i].frame) = ticks'[i].before]_vars

\* A capture waited at its send while the command loop took a command, and
\* the frame went out afterwards.
C19_Witness ==
    /\ spc = "idle"
    /\ Len(ticks) = 2
    /\ ticks[2].sent
    /\ ticks[2].before # ZeroDigest
    /\ stream[Len(stream)] = ticks[2].frame
    /\ md5SumBuffer = md5Sum(ticks[2].frame)
    /\ cmd.Cmd = "invert"
    /\ cCommands # <<>>

\* ------------------------------------------- the pipeline (SpecPipeline)

\* Settings a session can have reached: each parameter neutral or not, the
\* pixelation factor 1.0, 2.5 or NaN, both flags either way.
PipelineSettings ==
    { [DefaultImageSettings(mediumQ) EXCEPT
         !.brightness = br, !.contrast = ct, !.saturation = sa, !.blur = bl,
         !.pixelation = pix, !.invert = inv] :
        br \in {0, 100}, ct \in {0, 0 - 5}, sa \in {0, 7}, bl \in {0, 20},
        pix \in {Fin(1, 1), Fin(5, 2), NaN}, inv \in BOOLEAN }

InitPipeline == \E is \in PipelineSettings, dbg \in BOOLEAN : InitWith(is, dbg)

NextPipeline ==
    \/ beginCapture
    \/ readSetting
    \/ readDebug
    \/ \E imageBit \in Frames : encodeCapture(FALSE, imageBit)
    \/ encodeCapture(TRUE, NoFrame)
    \/ Deliver

SpecPipeline == InitPipeline /\ [][NextPipeline]_vars

\* The steps of the pipeline in their order, each with its gate.
PipelineSteps(is, dbg) ==
    << [name |-> "pixelate",   gate |-> FGt(is.pixelation, Fin(1, 1))],
       [name |-> "brightness", gate |-> is.brightness # 0],
       [name |-> "contrast",   gate |-> is.contrast # 0],
       [name |-> "saturation", gate |-> is.saturation # 0],
       [name |-> "blur",       gate |-> is.blur # 0],
       [name |-> "invert",     gate |-> is.invert],
       [name |-> "flip",       gate |-> TRUE],
       [name |-> "debug",      gate |-> dbg] >>

\* The names of the steps of s whose gate is open, in the order of s.
RECURSIVE OpenSteps(_)
OpenSteps(s) ==
    IF s = <<>> THEN <<>>
    ELSE (IF Head(s).gate THEN <<Head(s).name>> ELSE <<>>) \o OpenSteps(Tail(s))

\* C20: the transforms a capture has applied when it encodes are exactly the
\* steps pixelate, brightness, contrast, saturation, blur, invert, flip,
\* debug overlay whose gates are open (pixelation > 1.0, the parameter not 0,
\* the flag set, flip always), in that order.
C20_TransformsInFixedOrder ==
    spc = "encode" => img = OpenSteps(PipelineSteps(imageSettings, Debug))

\* A capture with every gate open has applied all eight transforms.
C20_Witness ==
    /\ spc = "encode"
    /\ img = <<"pixelate", "brightness", "contrast", "saturation", "blur", "invert",
               "flip", "debug">>

=============================================================================
